---- MODULE Spec2Model ----
(***************************************************************************)
(* Model of src/Port_Sampling_Application.py: one run of the Streamlit     *)
(* script on an uploaded workbook.  Text is a sequence of one-character    *)
(* strings, timestamps are positive integers, and a dataframe is a         *)
(* sequence of row records in index order.                                 *)
(***************************************************************************)
EXTENDS Integers, Sequences, FiniteSets, TLC

VARIABLES
    uploaded_file,            \* the workbook: [sheet, columns, rows]
    pc,                       \* position of the script
    df,                       \* rows read from "RawData", "Added Time" coerced
    bag_info_df,              \* per row: the dict extract_bag_info returned
    info_columns,             \* columns of bag_info_df (parsed keys)
    combined_df,              \* enriched rows, sorted by "Added Time" descending
    grouped_duplicates,       \* duplicates exception table
    length_exception_df,      \* length exception table
    start_datetime,           \* lower bound picked by the user
    end_datetime,             \* upper bound picked by the user
    combined_df_for_download, \* rows inside the datetime range
    mapped_df_for_download,   \* export columns: new column name -> cells
    errors,                   \* number of st.error messages rendered
    raised,                   \* the exception the try block caught, or "none"
    completed,                \* the stages that ran to their end, in order
    download                  \* TRUE once st.download_button was rendered

vars == << uploaded_file, pc, df, bag_info_df, info_columns, combined_df,
           grouped_duplicates, length_exception_df, start_datetime,
           end_datetime, combined_df_for_download, mapped_df_for_download,
           errors, raised, completed, download >>

----------------------------------------------------------------------------
(* Bounds of the enumerated uploads *)

MaxRows == 3

----------------------------------------------------------------------------
(* Values *)

\* pandas' missing text cell (NaN); never equal to a text made of characters
NaN == << "NaN" >>
\* Python's None, as assigned to a whole column at line 111
None == << "None" >>
\* pandas' missing timestamp (NaT); real timestamps are 1, 2, ...
NaT == 0
\* an "Added Time" cell that pd.to_datetime cannot parse
Unparseable == -1

\* str(x) / astype(str) of a cell
Str(x) ==
    IF x = NaN THEN << "n", "a", "n" >>
    ELSE IF x = None THEN << "N", "o", "n", "e" >>
    ELSE x

----------------------------------------------------------------------------
(* str.find / str.split / in *)

Min(S) == CHOOSE x \in S : \A y \in S : x <= y

\* 1-based index of the first occurrence of sep in s, 0 when there is none
Find(s, sep) ==
    LET hits == { i \in 1..Len(s) :
                    /\ i + Len(sep) - 1 <= Len(s)
                    /\ SubSeq(s, i, i + Len(sep) - 1) = sep }
    IN  IF hits = {} THEN 0 ELSE Min(hits)

Contains(s, sep) == Find(s, sep) # 0

RECURSIVE Split(_, _)
Split(s, sep) ==
    LET i == Find(s, sep)
    IN  IF i = 0 THEN << s >>
        ELSE << SubSeq(s, 1, i - 1) >>
                 \o Split(SubSeq(s, i + Len(sep), Len(s)), sep)

----------------------------------------------------------------------------
(* dict *)

EmptyDict == [k \in {} |-> << >>]

DictSet(d, k, v) ==
    [x \in (DOMAIN d) \cup {k} |-> IF x = k THEN v ELSE d[x]]

----------------------------------------------------------------------------
(* extract_bag_info, lines 32-35 *)

Comma == << "," >>
Equals == << "=" >>
ColonSpace == << ":", " " >>

\* dict(item.split('=') for item in ... if '=' in item): every element of the
\* update sequence must have length 2, else dict() raises ValueError
EqItemsOk(items) ==
    \A i \in 1..Len(items) :
        Contains(items[i], Equals) => Len(Split(items[i], Equals)) = 2

RECURSIVE EqPass(_, _, _)
EqPass(items, i, d) ==
    IF i > Len(items) THEN d
    ELSE IF Contains(items[i], Equals)
         THEN LET kv == Split(items[i], Equals)
              IN  EqPass(items, i + 1, DictSet(d, kv[1], kv[2]))
         ELSE EqPass(items, i + 1, d)

\* parts.update({item.split(': ')[0]: item.split(': ')[1] for ... if ': ' in item})
RECURSIVE ColonPass(_, _, _)
ColonPass(items, i, d) ==
    IF i > Len(items) THEN d
    ELSE IF Contains(items[i], ColonSpace)
         THEN LET kv == Split(items[i], ColonSpace)
              IN  ColonPass(items, i + 1, DictSet(d, kv[1], kv[2]))
         ELSE ColonPass(items, i + 1, d)

\* [ok |-> FALSE] stands for the ValueError raised at line 33
extract_bag_info(bag_id) ==
    LET items == Split(bag_id, Comma)
    IN  IF EqItemsOk(items)
        THEN [ok |-> TRUE, parts |-> ColonPass(items, 1, EqPass(items, 1, EmptyDict))]
        ELSE [ok |-> FALSE, parts |-> EmptyDict]

----------------------------------------------------------------------------
(* The uploads enumerated *)

IdA == << "A" >>
\* "Bag=A,Seal=S,Lot=L,x": exactly 20 characters
Id20 == << "B","a","g","=","A",",","S","e","a","l","=","S",",",
           "L","o","t","=","L",",","x" >>
\* "Bag=A,Seal=S,Lot=L,=x": 21 characters, with an empty-key segment
Id21 == << "B","a","g","=","A",",","S","e","a","l","=","S",",",
           "L","o","t","=","L",",","=","x" >>
\* "k1=v1, Label: Value,xy": 22 characters, no Bag key
IdNoBag == << "k","1","=","v","1",","," ","L","a","b","e","l",":"," ",
              "V","a","l","u","e",",","x","y" >>
\* "a=b=c": a segment with two '='
IdTwoEq == << "a","=","b","=","c" >>

BagIdInputs == << NaN, IdA, Id20, Id21, IdNoBag, IdTwoEq >>
AddedTimeInputs == << Unparseable, 1, 2 >>
BoundInputs == {1, 2}

SealNo == << "X", "1" >>
SamplingTime == << "T", "1" >>
GrossWeight == << "7", "5" >>

AddedTimeCol == "Added Time"
BagIdCol == "BAG ID."
SealCol == "AHK SEAL NO."
WeightCol == "WAREHOUSE PLATFORM SCALE GROSS WEIGHT (KG)"
SamplingCol == "SAMPLING TIME"
ScannedCol == "Bag Scanned & Manual"

AllColumns == {AddedTimeCol, BagIdCol, SealCol, WeightCol, SamplingCol}

\* The header rows enumerated: every optional-column combination, and each
\* required column missing once
ColumnSets ==
    { AllColumns, AllColumns \ {WeightCol}, AllColumns \ {SamplingCol},
      AllColumns \ {WeightCol, SamplingCol}, AllColumns \ {AddedTimeCol},
      AllColumns \ {BagIdCol}, AllColumns \ {SealCol} }

\* A sheet row: a cell of an absent column is missing; a row without a
\* "BAG ID." is taken to have no "SAMPLING TIME" either, so that a sheet with
\* the column holds filled and missing cells
RawRow(cols, b, t) ==
    [ AddedTime |-> IF AddedTimeCol \in cols THEN AddedTimeInputs[t] ELSE Unparseable,
      BagId     |-> IF BagIdCol \in cols THEN BagIdInputs[b] ELSE NaN,
      Seal      |-> IF SealCol \in cols THEN SealNo ELSE NaN,
      Weight    |-> IF WeightCol \in cols THEN GrossWeight ELSE NaN,
      Sampling  |-> IF SamplingCol \in cols /\ BagIdInputs[b] # NaN
                    THEN SamplingTime ELSE NaN ]

\* Row position carries no identity in the script, so one table is enumerated
\* per multiset of rows: the (BagId, AddedTime) choices are listed in
\* nondecreasing order of their rank.
Rank(b, t) == (b - 1) * Len(AddedTimeInputs) + t
RankSet(cols) ==
    { Rank(b, t) : b \in (IF BagIdCol \in cols THEN 1..Len(BagIdInputs) ELSE {1}),
                   t \in (IF AddedTimeCol \in cols THEN 1..Len(AddedTimeInputs) ELSE {1}) }
RowOfRank(cols, r) ==
    RawRow(cols, ((r - 1) \div Len(AddedTimeInputs)) + 1,
                 ((r - 1) % Len(AddedTimeInputs)) + 1)

RECURSIVE NonDecreasing(_, _)
NonDecreasing(n, R) ==
    IF n = 0 THEN { << >> }
    ELSE UNION { { Append(s, r) : r \in { x \in R : s = << >> \/ s[Len(s)] <= x } }
                 : s \in NonDecreasing(n - 1, R) }

\* A sheet with a "BAG ID." column has at least one filled cell in it, and one
\* with an "Added Time" column at least one cell that parses: what pandas and
\* streamlit make of an all-missing column is left out of the model.
Filled(cols, t) ==
    /\ BagIdCol \in cols => \E i \in 1..Len(t) : t[i].BagId # NaN
    /\ AddedTimeCol \in cols => \E i \in 1..Len(t) : t[i].AddedTime # Unparseable

Tables(cols) ==
    UNION { { t \in { [i \in 1..n |-> RowOfRank(cols, s[i])] :
                        s \in NonDecreasing(n, RankSet(cols)) } : Filled(cols, t) }
            : n \in 1..MaxRows }

Workbooks ==
    { [sheet |-> FALSE, columns |-> {}, rows |-> << >>] }
    \cup UNION { { [sheet |-> TRUE, columns |-> cols, rows |-> t] : t \in Tables(cols) }
                 : cols \in ColumnSets }

----------------------------------------------------------------------------
(* Initial state: the file is uploaded, the try block is about to start *)

Init ==
    /\ uploaded_file \in Workbooks
    /\ pc = "read_excel"
    /\ df = << >>
    /\ bag_info_df = << >>
    /\ info_columns = {}
    /\ combined_df = << >>
    /\ grouped_duplicates = << >>
    /\ length_exception_df = << >>
    /\ start_datetime = NaT
    /\ end_datetime = NaT
    /\ combined_df_for_download = << >>
    /\ mapped_df_for_download = EmptyDict
    /\ errors = 0
    /\ raised = "none"
    /\ completed = << >>
    /\ download = FALSE

\* a handler that swallows the exception without a message
ExceptSilent(e) ==
    /\ pc' = "error"
    /\ raised' = e
    /\ UNCHANGED << errors, completed >>

\* except Exception as e: st.error(...), lines 133-134
Except(e) ==
    /\ pc' = "error"
    /\ raised' = e
    /\ errors' = errors + 1
    /\ UNCHANGED completed

\* the stage at pc ran to its end; the script moves on to next
Goto(next) ==
    /\ pc' = next
    /\ completed' = Append(completed, pc)
    /\ UNCHANGED << errors, raised >>

----------------------------------------------------------------------------
(* Lines 16-30: read the sheet, coerce "Added Time", check the columns *)

to_datetime(t) == IF t = Unparseable THEN NaT ELSE t

ReadExcel ==
    /\ pc = "read_excel"
    /\ UNCHANGED << uploaded_file, bag_info_df, info_columns, combined_df,
                    grouped_duplicates, length_exception_df, start_datetime,
                    end_datetime, combined_df_for_download,
                    mapped_df_for_download, download >>
    /\ IF ~uploaded_file.sheet
       THEN \* read_excel raises: no sheet named "RawData"
            /\ Except("ValueError")
            /\ UNCHANGED df
       ELSE IF AddedTimeCol \notin uploaded_file.columns
       THEN \* st.error(...); st.stop()
            /\ errors' = errors + 1
            /\ pc' = "stopped"
            /\ df' = uploaded_file.rows
            /\ UNCHANGED << raised, completed >>
       ELSE /\ df' = [i \in 1..Len(uploaded_file.rows) |->
                        [uploaded_file.rows[i] EXCEPT
                           !.AddedTime = to_datetime(@)]]
            /\ Goto(IF BagIdCol \in uploaded_file.columns
                       /\ SealCol \in uploaded_file.columns
                    THEN "extract" ELSE "done")

----------------------------------------------------------------------------
(* Line 39: df[bag_id_column].dropna().apply(extract_bag_info).apply(pd.Series) *)

\* rows with a missing BAG ID. are dropped before the apply: no parsed fields
BagInfo(row) ==
    IF row.BagId = NaN THEN [ok |-> TRUE, parts |-> EmptyDict]
    ELSE extract_bag_info(row.BagId)

Extract ==
    /\ pc = "extract"
    /\ UNCHANGED << uploaded_file, df, combined_df, grouped_duplicates,
                    length_exception_df, start_datetime, end_datetime,
                    combined_df_for_download, mapped_df_for_download, download >>
    /\ LET infos == [i \in 1..Len(df) |-> BagInfo(df[i])]
       IN  IF \E i \in 1..Len(df) : ~infos[i].ok
           THEN /\ Except("ValueError")
                /\ UNCHANGED << bag_info_df, info_columns >>
           ELSE /\ bag_info_df' = [i \in 1..Len(df) |-> infos[i].parts]
                /\ info_columns' = UNION { DOMAIN infos[i].parts : i \in 1..Len(df) }
                /\ Goto("enrich")

----------------------------------------------------------------------------
(* Lines 42-56: concat, "Bag Scanned & Manual", sort by "Added Time" *)

LenThreshold == 20
BagKey == << "B", "a", "g" >>
SealKey == << "S", "e", "a", "l" >>
LotKey == << "L", "o", "t" >>

\* pd.concat([df, bag_info_df], axis=1): a row without a parsed key holds NaN
Concat(row, parts, cols) ==
    [ idx |-> 0, AddedTime |-> row.AddedTime, BagId |-> row.BagId,
      Seal |-> row.Seal, Weight |-> row.Weight, Sampling |-> row.Sampling,
      info |-> [k \in cols |-> IF k \in DOMAIN parts THEN parts[k] ELSE NaN],
      Scanned |-> NaN ]

\* the lambda of line 46 reads row["Bag"] exactly when the text is longer than 20
ReadsBag(row) == Len(Str(row.BagId)) > LenThreshold

\* the length test with the boundary on the wrong side
ScannedIdAtLeast(row) ==
    IF Len(Str(row.BagId)) >= LenThreshold THEN row.info[BagKey] ELSE row.BagId

\* row["Bag"] if len(str(row[bag_id_column])) > 20 else row[bag_id_column]
ScannedId(row) ==
    IF Len(Str(row.BagId)) > LenThreshold THEN row.info[BagKey] ELSE row.BagId

\* sort_values(by="Added Time", ascending=False): NaT last, ties in index order
Before(a, b) == a.AddedTime # NaT /\ (b.AddedTime = NaT \/ a.AddedTime > b.AddedTime)

Insert(sorted, row) ==
    LET n == Cardinality({ i \in 1..Len(sorted) : ~Before(row, sorted[i]) })
    IN  SubSeq(sorted, 1, n) \o << row >> \o SubSeq(sorted, n + 1, Len(sorted))

RECURSIVE SortFrom(_, _, _)
SortFrom(rows, i, sorted) ==
    IF i > Len(rows) THEN sorted
    ELSE SortFrom(rows, i + 1, Insert(sorted, rows[i]))

sort_values(rows) == SortFrom(rows, 1, << >>)

Enrich ==
    /\ pc = "enrich"
    /\ UNCHANGED << uploaded_file, df, bag_info_df, info_columns,
                    grouped_duplicates, length_exception_df, start_datetime,
                    end_datetime, combined_df_for_download,
                    mapped_df_for_download, download >>
    /\ LET joined == [i \in 1..Len(df) |->
                        [Concat(df[i], bag_info_df[i], info_columns) EXCEPT !.idx = i]]
       IN  IF BagKey \notin info_columns /\ \E i \in 1..Len(df) : ReadsBag(joined[i])
           THEN \* row["Bag"]: no such column
                /\ Except("KeyError")
                /\ UNCHANGED combined_df
           ELSE /\ combined_df' =
                     sort_values([i \in 1..Len(df) |->
                                    [joined[i] EXCEPT !.Scanned = ScannedId(joined[i])]])
                /\ Goto("duplicates")

----------------------------------------------------------------------------
(* Lines 58-71: duplicates exception table *)

\* code points order the group keys
Alphabet == << " ", ",", "1", ":", "=", "A", "B", "L", "S", "V", "a", "b",
               "c", "e", "g", "k", "l", "o", "t", "u", "v", "x", "y" >>
Ord(c) == CHOOSE i \in 1..Len(Alphabet) : Alphabet[i] = c

RECURSIVE StrLess(_, _)
StrLess(a, b) ==
    IF a = << >> THEN b # << >>
    ELSE IF b = << >> THEN FALSE
    ELSE IF Head(a) = Head(b) THEN StrLess(Tail(a), Tail(b))
    ELSE Ord(Head(a)) < Ord(Head(b))

RECURSIVE SortedKeys(_)
SortedKeys(S) ==
    IF S = {} THEN << >>
    ELSE LET m == CHOOSE x \in S : \A y \in S \ {x} : StrLess(x, y)
         IN  << m >> \o SortedKeys(S \ {m})

\* Series.unique(): first occurrences, in order
RECURSIVE Unique(_)
Unique(s) ==
    IF s = << >> THEN << >>
    ELSE LET init == Unique(SubSeq(s, 1, Len(s) - 1))
             last == s[Len(s)]
         IN  IF \E i \in 1..Len(init) : init[i] = last THEN init
             ELSE Append(init, last)

NotNaN(x) == x # NaN

\* the duplicate filter lost: every row is passed on to the grouping
duplicatedAll(rows, i) == i \in 1..Len(rows)

\* duplicated(subset=["Bag Scanned & Manual"], keep=False): missing values
\* compare equal to each other
duplicated(rows, i) ==
    \E j \in 1..Len(rows) : j # i /\ rows[j].Scanned = rows[i].Scanned

\* groupby(..., dropna=False): the missing key is a group of its own, last
GroupKeysKeepNa(rows) ==
    SortedKeys({ rows[i].Scanned : i \in { j \in 1..Len(rows) : rows[j].Scanned # NaN } })
    \o (IF \E i \in 1..Len(rows) : rows[i].Scanned = NaN THEN << NaN >> ELSE << >>)

\* groupby("Bag Scanned & Manual"): sorted keys, rows with a missing key dropped
GroupKeys(rows) ==
    SortedKeys({ rows[i].Scanned : i \in { j \in 1..Len(rows) : rows[j].Scanned # NaN } })

\* the lambda of lines 61-67 on one group; each joined text is kept as the
\* list of its parts ("Added Time" keeps NaT: astype(str) drops nothing)
Summary(group) ==
    [ AddedTime |-> Unique([i \in 1..Len(group) |-> group[i].AddedTime]),
      Scanned   |-> group[1].Scanned,
      SealNos   |-> Unique(SelectSeq([i \in 1..Len(group) |-> group[i].Seal], NotNaN)),
      Seal      |-> Unique(SelectSeq([i \in 1..Len(group) |-> group[i].info[SealKey]], NotNaN)),
      Lot       |-> Unique(SelectSeq([i \in 1..Len(group) |-> group[i].info[LotKey]], NotNaN)) ]

RowsAt(rows, I) ==
    LET RECURSIVE Pick(_)
        Pick(i) == IF i > Len(rows) THEN << >>
                   ELSE (IF i \in I THEN << rows[i] >> ELSE << >>) \o Pick(i + 1)
    IN  Pick(1)

Duplicates ==
    /\ pc = "duplicates"
    /\ UNCHANGED << uploaded_file, df, bag_info_df, info_columns, combined_df,
                    length_exception_df, start_datetime, end_datetime,
                    combined_df_for_download, mapped_df_for_download, download >>
    /\ LET duplicates_df ==
               RowsAt(combined_df, { i \in 1..Len(combined_df) : duplicated(combined_df, i) })
           keys == GroupKeys(duplicates_df)
           Group(k) ==
               RowsAt(duplicates_df,
                      { i \in 1..Len(duplicates_df) : duplicates_df[i].Scanned = k })
       IN  IF keys # << >> /\ ~({SealKey, LotKey} \subseteq info_columns)
           THEN \* group["Seal"] or group["Lot"]: no such column
                /\ Except("KeyError")
                /\ UNCHANGED grouped_duplicates
           ELSE /\ grouped_duplicates' = [g \in 1..Len(keys) |-> Summary(Group(keys[g]))]
                /\ Goto("length")

----------------------------------------------------------------------------
(* Lines 73-77: length exception table *)

LengthLow == 16
LengthHigh == 25

\* .str.len().between(16, 25); a missing cell has no length and is left out
InLengthBand(row) ==
    /\ row.BagId # NaN
    /\ LengthLow <= Len(row.BagId)
    /\ Len(row.BagId) <= LengthHigh

LengthException ==
    /\ pc = "length"
    /\ UNCHANGED << uploaded_file, df, bag_info_df, info_columns, combined_df,
                    grouped_duplicates, start_datetime, end_datetime,
                    combined_df_for_download, mapped_df_for_download, download >>
    /\ length_exception_df' = SelectSeq(combined_df, InLengthBand)
    /\ Goto("filter")

----------------------------------------------------------------------------
(* Lines 79-95: the date and time inputs, and the range filter *)

\* the upper bound taken exclusive
InRangeExclusive(t, start, end) == t # NaT /\ t >= start /\ t < end

\* (Added Time >= start) & (Added Time <= end): a comparison with NaT is False
InRange(t, start, end) == t # NaT /\ t >= start /\ t <= end

RangeFilter(rows, start, end) ==
    RowsAt(rows, { i \in 1..Len(rows) : InRange(rows[i].AddedTime, start, end) })

Filter ==
    /\ pc = "filter"
    /\ UNCHANGED << uploaded_file, df, bag_info_df, info_columns, combined_df,
                    grouped_duplicates, length_exception_df,
                    mapped_df_for_download, download >>
    /\ \E start \in BoundInputs, end \in BoundInputs :
          /\ start_datetime' = start
          /\ end_datetime' = end
          /\ combined_df_for_download' = RangeFilter(combined_df, start, end)
          /\ Goto("export")

----------------------------------------------------------------------------
(* Lines 97-122: the export columns *)

column_mappings ==
    << << ScannedCol, "name" >>,
       << SealCol, "PRN_AHK_SEAL" >>,
       << WeightCol, "PRN_WH_GROSS_WEIGHT" >>,
       << SamplingCol, "BAG_AHK_LP_SAMPLING_TS" >> >>

TimeColumns == << "BAG_AHK_LP_SAMPLING_TS" >>
Suffix == << "+", "0", "2", ":", "0", "0" >>

Cell(row, col) ==
    CASE col = ScannedCol -> row.Scanned
      [] col = SealCol -> row.Seal
      [] col = WeightCol -> row.Weight
      [] col = SamplingCol -> row.Sampling

\* original_col in combined_df_for_download.columns (the parsed keys of the
\* uploads enumerated never spell a sheet column)
HasColumn(col) == col = ScannedCol \/ col \in uploaded_file.columns

\* lines 115-117, one column: astype(str) + "+02:00"
SuffixColumn(out, col) ==
    IF col \in DOMAIN out
    THEN [out EXCEPT ![col] = [r \in 1..Len(@) |-> Str(@[r]) \o Suffix]]
    ELSE out

RECURSIVE SuffixLoop(_, _)
SuffixLoop(out, i) ==
    IF i > Len(TimeColumns) THEN out
    ELSE SuffixLoop(SuffixColumn(out, TimeColumns[i]), i + 1)

\* the suffix loop nested under the else: it runs for a missing column only
RECURSIVE MapColumnsSuffixInElse(_, _, _)
MapColumnsSuffixInElse(rows, i, out) ==
    IF i > Len(column_mappings) THEN out
    ELSE LET original_col == column_mappings[i][1]
             new_col == column_mappings[i][2]
         IN  IF HasColumn(original_col)
             THEN MapColumnsSuffixInElse(rows, i + 1,
                    DictSet(out, new_col,
                            [r \in 1..Len(rows) |-> Cell(rows[r], original_col)]))
             ELSE MapColumnsSuffixInElse(rows, i + 1,
                    SuffixLoop(DictSet(out, new_col, [r \in 1..Len(rows) |-> None]), 1))

\* lines 107-117: the suffix loop is indented as the if/else of line 108, so it
\* is part of the body of the outer loop and runs after every column added
RECURSIVE MapColumns(_, _, _)
MapColumns(rows, i, out) ==
    IF i > Len(column_mappings) THEN out
    ELSE LET original_col == column_mappings[i][1]
             new_col == column_mappings[i][2]
             added ==
                 IF HasColumn(original_col)
                 THEN DictSet(out, new_col,
                              [r \in 1..Len(rows) |-> Cell(rows[r], original_col)])
                 ELSE DictSet(out, new_col, [r \in 1..Len(rows) |-> None])
         IN  MapColumns(rows, i + 1, SuffixLoop(added, 1))

Export ==
    /\ pc = "export"
    /\ UNCHANGED << uploaded_file, df, bag_info_df, info_columns, combined_df,
                    grouped_duplicates, length_exception_df, start_datetime,
                    end_datetime, combined_df_for_download, download >>
    /\ mapped_df_for_download' = MapColumns(combined_df_for_download, 1, EmptyDict)
    /\ Goto("download")

----------------------------------------------------------------------------
(* Lines 124-131: to_csv and the download button *)

Download ==
    /\ pc = "download"
    /\ UNCHANGED << uploaded_file, df, bag_info_df, info_columns, combined_df,
                    grouped_duplicates, length_exception_df, start_datetime,
                    end_datetime, combined_df_for_download, mapped_df_for_download >>
    /\ download' = TRUE
    /\ Goto("done")

----------------------------------------------------------------------------

Next ==
    \/ ReadExcel
    \/ Extract
    \/ Enrich
    \/ Duplicates
    \/ LengthException
    \/ Filter
    \/ Export
    \/ Download

Spec == Init /\ [][Next]_vars

----------------------------------------------------------------------------
(* Vocabulary of the properties *)

Stages == << "read_excel", "extract", "enrich", "duplicates", "length",
             "filter", "export", "download" >>

\* the stage ran to its end in this run
Ran(stage) == \E i \in 1..Len(completed) : completed[i] = stage

\* the run ended in the except branch, raised by the given stage
FailedIn(stage) ==
    /\ pc = "error"
    /\ \E k \in 1..Len(Stages) : Stages[k] = stage /\ completed = SubSeq(Stages, 1, k - 1)

\* the row's raw "BAG ID." cell and parsed fields, by the row's sheet position
RawBagId(row) == df[row.idx].BagId
ParsedField(row, key) ==
    IF key \in DOMAIN bag_info_df[row.idx] THEN bag_info_df[row.idx][key] ELSE NaN

Carriers(v) == { i \in 1..Len(combined_df) : combined_df[i].Scanned = v }
SummaryRows(v) == { g \in 1..Len(grouped_duplicates) : grouped_duplicates[g].Scanned = v }

----------------------------------------------------------------------------
\* C1: in every enriched row, ScannedId is the row's parsed Bag field when the
\* text of the raw BAG ID. is longer than 20 characters, and the raw BAG ID.
\* unchanged when it has 20 characters or fewer.
C1_ScannedIdByLength ==
    \A i \in 1..Len(combined_df) :
        LET row == combined_df[i]
        IN  IF Len(Str(RawBagId(row))) > 20
            THEN row.Scanned = ParsedField(row, BagKey)
            ELSE row.Scanned = RawBagId(row)

\* an enriched table holding a 21-character id resolved to its Bag field and
\* a 20-character id kept as it is
C1_Witness ==
    /\ Ran("enrich")
    /\ \E i \in 1..Len(combined_df) :
          RawBagId(combined_df[i]) = Id21 /\ combined_df[i].Scanned = IdA
    /\ \E i \in 1..Len(combined_df) :
          RawBagId(combined_df[i]) = Id20 /\ combined_df[i].Scanned = Id20

\* C2: a row whose BAG ID. is longer than 20 characters and whose parsed
\* fields have no Bag key does not fail the run in the enrichment, and its
\* ScannedId is null, whatever the other rows of the table are.
C2_MissingBagIsNull ==
    \A i \in 1..Len(df) :
        ( /\ Ran("extract")
          /\ Len(Str(df[i].BagId)) > 20
          /\ BagKey \notin DOMAIN bag_info_df[i] )
        => /\ ~FailedIn("enrich")
           /\ Ran("enrich") =>
                 \A j \in 1..Len(combined_df) :
                     combined_df[j].idx = i => combined_df[j].Scanned = NaN

\* The parsing rule as the specification words it: split on ',', trim each
\* segment, split at the first '=' and at the first ': ', the ': ' pairs last
Trim(s) ==
    LET keep == { i \in 1..Len(s) : s[i] # " " }
    IN  IF keep = {} THEN << >>
        ELSE SubSeq(s, Min(keep), CHOOSE m \in keep : \A k \in keep : k <= m)

KeyOf(s, sep) == SubSeq(s, 1, Find(s, sep) - 1)
ValueOf(s, sep) == SubSeq(s, Find(s, sep) + Len(sep), Len(s))

RECURSIVE RulePass(_, _, _, _)
RulePass(segments, sep, i, d) ==
    IF i > Len(segments) THEN d
    ELSE LET seg == Trim(segments[i])
         IN  IF Contains(seg, sep)
             THEN RulePass(segments, sep, i + 1, DictSet(d, KeyOf(seg, sep), ValueOf(seg, sep)))
             ELSE RulePass(segments, sep, i + 1, d)

RuleParse(bag_id) ==
    LET segments == Split(bag_id, Comma)
    IN  RulePass(segments, ColonSpace, 1, RulePass(segments, Equals, 1, EmptyDict))

\* C3: the parsed fields of every BAG ID. are those of the rule "split on
\* ',', trim each segment, split a segment holding '=' at its first '=' and a
\* segment holding ': ' at its first ': '".
C3_ParserFollowsRule ==
    Ran("extract") =>
        \A i \in 1..Len(df) :
            df[i].BagId # NaN => bag_info_df[i] = RuleParse(df[i].BagId)

\* C4: no BAG ID. text makes the run fail in the parsing stage, and every row
\* of the sheet is kept in the enriched table.
C4_ParseNeverFatal ==
    /\ ~FailedIn("extract")
    /\ Ran("enrich") => Len(combined_df) = Len(df)

C6_SealOptional ==
    (Ran("enrich") /\ SealKey \notin info_columns)
        => /\ ~FailedIn("duplicates")
           /\ Ran("duplicates") =>
                 \A g \in 1..Len(grouped_duplicates) : grouped_duplicates[g].Seal = << >>

\* C7: the range filter returns exactly the enriched rows whose Added Time is
\* not null and lies in [start, end], both bounds included; no row with a
\* null Added Time; nothing, and no error, when start > end.
C7_RangeFilterInclusive ==
    /\ Ran("filter") =>
          /\ \A i \in 1..Len(combined_df) :
                LET t == df[combined_df[i].idx].AddedTime
                    kept == { j \in 1..Len(combined_df_for_download) :
                                combined_df_for_download[j] = combined_df[i] }
                IN  IF t # NaT /\ start_datetime <= t /\ t <= end_datetime
                    THEN \E j \in kept : TRUE
                    ELSE kept = {}
          /\ \A j \in 1..Len(combined_df_for_download) :
                \E i \in 1..Len(combined_df) :
                    combined_df_for_download[j] = combined_df[i]
          /\ Cardinality({ combined_df_for_download[j].idx :
                             j \in 1..Len(combined_df_for_download) })
                = Len(combined_df_for_download)
          /\ start_datetime > end_datetime => combined_df_for_download = << >>
    /\ ~FailedIn("filter")

\* bounds [1, 1] over rows stamped 1, 2 and NaT: only the row stamped 1 is kept
C7_Witness ==
    /\ Ran("filter")
    /\ start_datetime = 1 /\ end_datetime = 1
    /\ \E i \in 1..Len(combined_df) : combined_df[i].AddedTime = NaT
    /\ \E i \in 1..Len(combined_df) : combined_df[i].AddedTime = 2
    /\ Len(combined_df_for_download) = 1
    /\ combined_df_for_download[1].AddedTime = 1

\* the source value of an export cell: null when the sheet lacks the column
SourceCell(row, col) == IF HasColumn(col) THEN Cell(row, col) ELSE None

\* C8: once the export columns are built, every BAG_AHK_LP_SAMPLING_TS value
\* is the text of the row's SAMPLING TIME (of null when the column or value is
\* missing) followed by one "+02:00"; the other three columns carry the source
\* values, or null in every row when the source column is absent.
C8_SamplingSuffixEverywhere ==
    Ran("export") =>
        \A r \in 1..Len(combined_df_for_download) :
            LET row == combined_df_for_download[r]
            IN  /\ mapped_df_for_download["BAG_AHK_LP_SAMPLING_TS"][r]
                      = Str(SourceCell(row, SamplingCol)) \o Suffix
                /\ mapped_df_for_download["name"][r] = row.Scanned
                /\ mapped_df_for_download["PRN_AHK_SEAL"][r] = SourceCell(row, SealCol)
                /\ mapped_df_for_download["PRN_WH_GROSS_WEIGHT"][r]
                      = SourceCell(row, WeightCol)

\* the export built from a sheet with a SAMPLING TIME column and no weight
\* column, over a row with a sampling time and a row without one
C8_Witness ==
    /\ Ran("export")
    /\ SamplingCol \in uploaded_file.columns
    /\ WeightCol \notin uploaded_file.columns
    /\ \E r \in 1..Len(combined_df_for_download) :
          /\ combined_df_for_download[r].Sampling = SamplingTime
          /\ mapped_df_for_download["BAG_AHK_LP_SAMPLING_TS"][r] = SamplingTime \o Suffix
    /\ \E r \in 1..Len(combined_df_for_download) :
          /\ combined_df_for_download[r].Sampling = NaN
          /\ mapped_df_for_download["BAG_AHK_LP_SAMPLING_TS"][r] = Str(NaN) \o Suffix
    /\ \A r \in 1..Len(combined_df_for_download) :
          mapped_df_for_download["PRN_WH_GROSS_WEIGHT"][r] = None

\* C9 as stated: two or more enriched rows with a null ScannedId give one
\* summary row for the null group.
C9_NullGroupListed ==
    (Ran("duplicates") /\ Cardinality(Carriers(NaN)) >= 2)
        => Cardinality(SummaryRows(NaN)) = 1

\* C9, amended: null is not a group key; the duplicate view never holds a
\* summary row for the null ScannedId, also when two or more rows carry it.
C9_NullGroupDropped ==
    Ran("duplicates") => SummaryRows(NaN) = {}

\* two rows with a null ScannedId, both selected as duplicates, and the
\* duplicate view computed without a row for them
C9_Witness ==
    /\ Ran("duplicates")
    /\ Cardinality(Carriers(NaN)) >= 2
    /\ \A i \in Carriers(NaN) : duplicated(combined_df, i)
    /\ grouped_duplicates = << >>

\* C10: a run that raised ended with exactly one error message and without
\* the download; the download is offered only after loading, parsing,
\* enrichment, both views, the range filter and the export mapping completed,
\* and then nothing was raised and no message rendered.
C10_ErrorOrDownload ==
    /\ errors <= 1
    /\ (pc = "error" \/ raised # "none") =>
          /\ pc = "error" /\ raised # "none"
          /\ errors = 1
          /\ ~download
    /\ pc = "stopped" => errors = 1 /\ ~download
    /\ download =>
          /\ completed = Stages
          /\ raised = "none"
          /\ errors = 0

\* a run that raised after the upload was read, in a later stage
C10_Witness ==
    /\ pc = "error"
    /\ Ran("enrich")
    /\ raised = "KeyError"
    /\ errors = 1
    /\ ~download
====
